---- MODULE Spec2Model ----
\* Orchestration core of the multi-agent data analytics supervisor:
\* router parsing, worker invocation with delta extraction and file-pointer
\* update (agents.py), artifact path conventions of the tools (tools.py),
\* and the turn entry of the Streamlit front end (app.py).
\*
\* Python strings are modelled as sequences of one-character strings, so that
\* substring tests, lower(), strip(), splitext(), replace() and the regular
\* expression of the result extractor are computed character by character.
EXTENDS Integers, Sequences, FiniteSets, TLC

\* ---------------------------------------------------------------- bounds
\* messages the session's history holds: user turns, tool rounds and worker
\* reports stop being added once it is reached
MaxMessages == 7
\* pieces the router backend's free-text answer is assembled from
MaxAnswerParts == 3
\* thread ids issued: the two sessions' first threads and those Clear Conversation starts
MaxThreads == 3
\* messages over all threads after which two sessions start no turn and no worker
MaxSessionMessages == 4

\* ------------------------------------------------------- string helpers
Min(S) == CHOOSE x \in S : \A y \in S : x <= y
Max(S) == CHOOSE x \in S : \A y \in S : x >= y

\* python: pat in s
Contains(s, pat) ==
    \E i \in 1..(Len(s) - Len(pat) + 1) : SubSeq(s, i, i + Len(pat) - 1) = pat

\* python: s.endswith(suffix)
EndsWith(s, suffix) ==
    /\ Len(suffix) <= Len(s)
    /\ SubSeq(s, Len(s) - Len(suffix) + 1, Len(s)) = suffix

\* whitespace characters removed by str.strip()
Whitespace == {" ", "\n", "\t", "\r"}

\* python: s.strip()
strip(s) ==
    LET keep == {i \in 1..Len(s) : s[i] \notin Whitespace}
    IN  IF keep = {} THEN <<>> ELSE SubSeq(s, Min(keep), Max(keep))

UpperCase == <<"A","B","C","D","E","F","G","H","I","J","K","L","M","N","O","P","Q","R","S","T","U","V","W","X","Y","Z">>
LowerCase == <<"a","b","c","d","e","f","g","h","i","j","k","l","m","n","o","p","q","r","s","t","u","v","w","x","y","z">>

\* the lower-case letter of each upper-case letter
lower_map == [c \in {UpperCase[k] : k \in 1..Len(UpperCase)} |->
                LowerCase[CHOOSE k \in 1..Len(UpperCase) : UpperCase[k] = c]]

\* python: s.lower()
lower(s) ==
    [i \in 1..Len(s) |-> IF s[i] \in DOMAIN lower_map THEN lower_map[s[i]] ELSE s[i]]

\* python: s.replace(old, new) -- every non-overlapping occurrence, left to right
RECURSIVE replace(_, _, _)
replace(s, old, new) ==
    IF Len(s) < Len(old) THEN s
    ELSE IF SubSeq(s, 1, Len(old)) = old
         THEN new \o replace(SubSeq(s, Len(old) + 1, Len(s)), old, new)
         ELSE <<s[1]>> \o replace(Tail(s), old, new)

\* python: os.path.splitext(p) -> (base, ext)
splitext(p) ==
    LET seps    == {i \in 1..Len(p) : p[i] = "/"}
        dots    == {i \in 1..Len(p) : p[i] = "."}
        sepIdx  == IF seps = {} THEN 0 ELSE Max(seps)
        dotIdx  == IF dots = {} THEN 0 ELSE Max(dots)
    IN  IF dotIdx > sepIdx /\ \E k \in (sepIdx + 1)..(dotIdx - 1) : p[k] # "."
        THEN <<SubSeq(p, 1, dotIdx - 1), SubSeq(p, dotIdx, Len(p))>>
        ELSE <<p, <<>> >>

\* --------------------------------------------------------------- router
cleaning_agent == <<"c","l","e","a","n","i","n","g","_","a","g","e","n","t">>
clustering_agent == <<"c","l","u","s","t","e","r","i","n","g","_","a","g","e","n","t">>
visualization_agent == <<"v","i","s","u","a","l","i","z","a","t","i","o","n","_","a","g","e","n","t">>
FINISH == <<"F","I","N","I","S","H">>
supervisor == <<"s","u","p","e","r","v","i","s","o","r">>
END == <<"_","_","e","n","d","_","_">>

\* agents.py: members = [...]
members == <<cleaning_agent, clustering_agent, visualization_agent>>
\* mutant of options: FINISH tested before the agent names
options_finish_first == <<FINISH>> \o members

\* agents.py: options = members + ["FINISH"]
options == members \o <<FINISH>>

\* mutant of detected_agent: the backend's answer is trusted as it is
detected_agent_unparsed(content) == content

\* mutant of detected_agent: an answer without any name re-runs the first agent
detected_agent_default_first(content) ==
    LET hits == {i \in 1..Len(options) : Contains(content, options[i])}
    IN  IF hits = {} THEN options[1] ELSE options[Min(hits)]

\* mutant of detected_agent: "option == content" in place of "option in content"
detected_agent_exact(content) ==
    LET hits == {i \in 1..Len(options) : content = options[i]}
    IN  IF hits = {} THEN FINISH ELSE options[Min(hits)]

\* mutant of detected_agent: the name that occurs first in the answer wins
detected_agent_leftmost(content) ==
    LET first(o) == Min({i \in 1..(Len(content) - Len(o) + 1) :
                                SubSeq(content, i, i + Len(o) - 1) = o})
        hits == {i \in 1..Len(options) : Contains(content, options[i])}
    IN  IF hits = {} THEN FINISH
        ELSE options[CHOOSE i \in hits : \A j \in hits : first(options[i]) <= first(options[j])]

\* agents.py supervisor_node, the scan "for option in options: if option in content"
detected_agent(content) ==
    LET hits == {i \in 1..Len(options) : Contains(content, options[i])}
    IN  IF hits = {} THEN FINISH ELSE options[Min(hits)]

\* mutant of supervisor_node: the answer is returned as a message too
supervisor_node_appends_answer(response) ==
    [next_node |-> detected_agent(strip(response)),
     messages |-> <<[type |-> "ai", content |-> response, tool_calls |-> <<>>]>>]

\* agents.py supervisor_node: the state update returned for a backend answer
supervisor_node(response) ==
    [next_node |-> detected_agent(strip(response))]

\* agents.py add_conditional_edges: the path map of the supervisor node
path_map ==
    (cleaning_agent :> cleaning_agent) @@ (clustering_agent :> clustering_agent)
    @@ (visualization_agent :> visualization_agent) @@ (FINISH :> END)

\* the node no edge leads to (a KeyError of the path map)
NoNode == <<"KeyError">>

\* agents.py add_conditional_edges: lambda x: x["next_node"] through the path map
conditional_edge(nn) ==
    IF nn \in DOMAIN path_map THEN path_map[nn] ELSE NoNode

\* ---------------------------------------------------------------- tools
DotCsv == <<".","c","s","v">>

\* mutant of clean_output_path: the suffix is added without looking at the base
clean_output_path_always_suffixed(file_path) ==
    LET be == splitext(file_path)
    IN  be[1] \o <<"_","c","l","e","a","n","e","d">> \o be[2]

\* tools.py clean_data, "4. Save": the path the cleaned frame is written to
clean_output_path(file_path) ==
    LET be == splitext(file_path)
    IN  IF EndsWith(be[1], <<"_","c","l","e","a","n","e","d">>)
        THEN file_path
        ELSE be[1] \o <<"_","c","l","e","a","n","e","d">> \o be[2]

\* tools.py perform_clustering, "5. Save Results"
cluster_output_path(file_path) == replace(file_path, DotCsv, <<"_","c","l","u","s","t","e","r","e","d",".","c","s","v">>)

\* tools.py, "except Exception as e: ... {str(e)}": the text of the exception.
\* pd.read_csv on a path that does not exist raises FileNotFoundError, whose text
\* names the path; the text of any other exception is written E
str_e(file_path, outcome) ==
    IF outcome = "missing"
    THEN <<"[","E","r","r","n","o"," ","2","]"," ","N","o"," ","s","u","c","h"," ","f","i","l","e"," ","o","r"," ","d","i","r","e","c","t","o","r","y",":"," ","'">> \o file_path \o <<"'">>
    ELSE <<"E">>

\* tools.py clean_data: the text returned and the file written (if any). outcome is what
\* the frame operations do on the file's content: "ok", "empty" (df.empty after
\* read_csv), "empty_result" (df.empty after cleaning), "missing" (no such file),
\* "exception" (any other raise). len(df) is written N; drop_columns is left at
\* its default.
clean_data(file_path, outcome) ==
    CASE outcome = "ok" ->
           [text |-> <<"D","a","t","a"," ","c","l","e","a","n","i","n","g"," ","c","o","m","p","l","e","t","e","."," ","S","a","v","e","d"," ","t","o",":"," ">> \o clean_output_path(file_path)
                     \o <<".">> \o <<" ","H","a","n","d","l","e","d"," ","n","u","l","l","s",","," ","v","a","l","i","d","a","t","e","d"," ","t","y","p","e","s",","," ","a","n","d"," ","s","a","n","i","t","i","z","e","d"," ","N"," ","r","o","w","s",".">>,
            written |-> <<clean_output_path(file_path)>>]
      [] outcome = "empty" ->
           [text |-> <<"E","r","r","o","r",":"," ","T","h","e"," ","f","i","l","e"," ","a","t"," ">> \o file_path \o <<" ","i","s"," ","e","m","p","t","y",".">>, written |-> <<>>]
      [] outcome = "empty_result" ->
           [text |-> <<"E","r","r","o","r",":"," ","C","l","e","a","n","i","n","g"," ","p","r","o","c","e","s","s"," ","r","e","s","u","l","t","e","d"," ","i","n"," ","a","n"," ","e","m","p","t","y"," ","d","a","t","a","s","e","t","."," ","C","h","e","c","k"," ","y","o","u","r"," ","n","u","l","l"," ","t","h","r","e","s","h","o","l","d"," ","o","r"," ","o","u","t","l","i","e","r"," ","s","e","t","t","i","n","g","s",".">>,
            written |-> <<>>]
      [] OTHER ->
           [text |-> <<"E","r","r","o","r"," ","d","u","r","i","n","g"," ","c","l","e","a","n","i","n","g",":"," ">> \o str_e(file_path, outcome), written |-> <<>>]

\* tools.py perform_eda: "ok" (no extreme correlation found; df.shape written S),
\* "no_numeric", "exception"
perform_eda(file_path, outcome) ==
    CASE outcome = "ok" ->
           [text |-> <<"E","D","A"," ","R","e","p","o","r","t",":","\n","-"," ","N","o"," ","e","x","t","r","e","m","e"," ","m","u","l","t","i","c","o","l","l","i","n","e","a","r","i","t","y"," ","d","e","t","e","c","t","e","d"," ","(",">","0",".","8","5",")",".","\n","-"," ","D","a","t","a"," ","S","h","a","p","e",":"," ","S","\n","-"," ","S","i","g","n","a","l","s"," ","g","e","n","e","r","a","t","e","d"," ","f","o","r"," ","U","I",":"," ","C","o","r","r","e","l","a","t","i","o","n"," ","H","e","a","t","m","a","p"," ","a","n","d"," ","F","e","a","t","u","r","e"," ","D","i","s","t","r","i","b","u","t","i","o","n","s",".">>,
            written |-> <<>>]
      [] outcome = "no_numeric" ->
           [text |-> <<"N","o"," ","n","u","m","e","r","i","c","a","l"," ","d","a","t","a"," ","a","v","a","i","l","a","b","l","e"," ","f","o","r"," ","E","D","A",".">>, written |-> <<>>]
      [] OTHER ->
           [text |-> <<"E","r","r","o","r"," ","d","u","r","i","n","g"," ","E","D","A",":"," ">> \o str_e(file_path, outcome), written |-> <<>>]

\* tools.py perform_clustering
perform_clustering(file_path, outcome) ==
    CASE outcome = "ok" ->
           [text |-> <<"C","l","u","s","t","e","r","i","n","g"," ","c","o","m","p","l","e","t","e","."," ","R","e","s","u","l","t","s"," ","s","a","v","e","d"," ","t","o",":"," ">> \o cluster_output_path(file_path)
                     \o <<"."," ","P","C","A"," ","c","o","m","p","o","n","e","n","t","s"," ","(","P","C","A","1",","," ","P","C","A","2",")"," ","a","n","d"," ","'","C","l","u","s","t","e","r","'"," ","l","a","b","e","l","s"," ","a","d","d","e","d",".">>,
            written |-> <<cluster_output_path(file_path)>>]
      [] OTHER ->
           [text |-> <<"E","r","r","o","r"," ","d","u","r","i","n","g"," ","c","l","u","s","t","e","r","i","n","g",":"," ">> \o str_e(file_path, outcome), written |-> <<>>]

\* tools.py generate_visualization: "ok", "no_columns", "exception"
generate_visualization(file_path, outcome) ==
    CASE outcome = "ok" ->
           [text |-> <<"V","i","s","u","a","l","i","z","a","t","i","o","n"," ","g","e","n","e","r","a","t","e","d","."," ","U","s","e"," ","t","h","e"," ","p","r","o","v","i","d","e","d"," ","d","a","t","a","f","r","a","m","e"," ","t","o"," ","r","e","n","d","e","r"," ","t","h","e"," ","s","c","a","t","t","e","r"," ","p","l","o","t",".">>,
            written |-> <<>>]
      [] outcome = "no_columns" ->
           [text |-> <<"E","r","r","o","r",":"," ","F","i","l","e"," ","d","o","e","s"," ","n","o","t"," ","c","o","n","t","a","i","n"," ","'","P","C","A","1","'",","," ","'","P","C","A","2","'"," ","o","r"," ","'","C","l","u","s","t","e","r","'"," ","c","o","l","u","m","n","s","."," ","P","e","r","f","o","r","m"," ","c","l","u","s","t","e","r","i","n","g"," ","f","i","r","s","t",".">>,
            written |-> <<>>]
      [] OTHER ->
           [text |-> <<"E","r","r","o","r"," ","d","u","r","i","n","g"," ","v","i","s","u","a","l","i","z","a","t","i","o","n",":"," ">> \o str_e(file_path, outcome), written |-> <<>>]

\* agents.py create_react_agent(..., tools=[...]): the tools bound to each worker
agent_tools(name) ==
    CASE name = cleaning_agent -> {"clean_data", "perform_eda"}
      [] name = clustering_agent -> {"perform_clustering"}
      [] name = visualization_agent -> {"generate_visualization"}

\* the @tool call dispatched by the worker's tool node
call_tool(tool, file_path, outcome) ==
    CASE tool = "clean_data" -> clean_data(file_path, outcome)
      [] tool = "perform_eda" -> perform_eda(file_path, outcome)
      [] tool = "perform_clustering" -> perform_clustering(file_path, outcome)
      [] tool = "generate_visualization" -> generate_visualization(file_path, outcome)

\* what a tool can do on a file: pd.read_csv raises when the file does not exist
tool_outcomes(tool, file_path, fs) ==
    IF file_path \notin fs THEN {"missing"}
    ELSE CASE tool = "clean_data" -> {"ok", "empty", "empty_result", "exception"}
           [] tool = "perform_eda" -> {"ok", "no_numeric", "exception"}
           [] tool = "perform_clustering" -> {"ok", "exception"}
           [] tool = "generate_visualization" -> {"ok", "no_columns", "exception"}

\* ----------------------------------------------------- result extractor
NoMatch == <<"NoMatch">>

\* agents.py run_specialist: re.search(r"saved to: (.*?\.csv)", last_msg) -> group(1).
\* Leftmost start of the literal; the lazy group ends at the first ".csv" after it;
\* "." does not match a newline.
re_search_saved_to(s) ==
    LET lit == <<"s","a","v","e","d"," ","t","o",":"," ">>
        ends(i) == {j \in (i + Len(lit))..(Len(s) - Len(DotCsv) + 1) :
                        SubSeq(s, j, j + Len(DotCsv) - 1) = DotCsv}
        ok(i) == /\ SubSeq(s, i, i + Len(lit) - 1) = lit
                 /\ ends(i) # {}
                 /\ \A k \in (i + Len(lit))..(Min(ends(i)) - 1) : s[k] # "\n"
        starts == {i \in 1..(Len(s) - Len(lit) + 1) : ok(i)}
    IN  IF starts = {} THEN NoMatch
        ELSE SubSeq(s, Min(starts) + Len(lit), Min(ends(Min(starts))) + Len(DotCsv) - 1)

\* agents.py run_specialist: the test of one message inside the reversed scan
message_path(content) ==
    IF Contains(lower(content), <<"s","a","v","e","d"," ","t","o",":">>)
    THEN LET found == [m \in {1} |-> re_search_saved_to(content)]
         IN  IF found[1] # NoMatch THEN strip(found[1]) ELSE NoMatch
    ELSE NoMatch

\* mutant of extract_df_path: the pointer starts empty instead of at the state's value
extract_df_path_from_empty(df_path_in, new_msgs) ==
    LET paths == [i \in 1..Len(new_msgs) |-> message_path(new_msgs[i].content)]
        hits  == {i \in 1..Len(new_msgs) : paths[i] # NoMatch}
    IN  IF hits = {} THEN <<>> ELSE paths[Max(hits)]

\* agents.py run_specialist: "for m in reversed(new_messages)" with break on a match
extract_df_path(df_path_in, new_msgs) ==
    LET paths == [i \in 1..Len(new_msgs) |-> message_path(new_msgs[i].content)]
        hits  == {i \in 1..Len(new_msgs) : paths[i] # NoMatch}
    IN  IF hits = {} THEN df_path_in ELSE paths[Max(hits)]

\* python None
None == <<"None">>
\* str(None) inside an f-string
fmt(p) == IF p = None THEN <<"N","o","n","e">> ELSE p

\* agents.py run_specialist: the injected SystemMessage (its first sentence; the
\* numbered instructions that follow carry no path and are left out)
context_msg(current_path, id) ==
    [id |-> id, type |-> "system",
     content |-> <<"I","M","P","O","R","T","A","N","T",":"," ","T","h","e"," ","c","u","r","r","e","n","t","l","y"," ","a","c","t","i","v","e"," ","d","a","t","a"," ","f","i","l","e"," ","p","a","t","h"," ","i","s",":"," ">> \o fmt(current_path) \o <<"."," ">>]

\* mutant of local_messages: the worker is handed the latest message only
local_messages_latest_only(msgs, current_path, id) ==
    (IF msgs = <<>> THEN <<>> ELSE <<msgs[Len(msgs)]>>) \o <<context_msg(current_path, id)>>

\* agents.py run_specialist: local_state["messages"] = list(...) + [context_msg]
local_messages(msgs, current_path, id) == msgs \o <<context_msg(current_path, id)>>

\* mutant of history_len: the count is taken before the context message is added
history_len_before_injection(local) == Len(local) - 1

\* agents.py run_specialist: history_len = len(local_state["messages"])
history_len(local) == Len(local)

\* agents.py run_specialist: new_messages = result["messages"][history_len:]
new_messages(result_msgs, hl) == SubSeq(result_msgs, hl + 1, Len(result_msgs))

\* agents.py run_specialist, whole: state is [messages, df_path], produced the
\* messages the agent appended to its input; ctx_id the id the injected message gets
run_specialist(state, produced, ctx_id) ==
    LET local  == local_messages(state.messages, state.df_path, ctx_id)
        hl     == history_len(local)
        result == local \o produced
        new    == new_messages(result, hl)
    IN  [messages |-> new, df_path |-> extract_df_path(state.df_path, new)]

\* ------------------------------------------------- the worker's ReAct loop
Range(s) == {s[i] : i \in 1..Len(s)}

ai_message(text, calls) == [type |-> "ai", content |-> text, tool_calls |-> calls]
tool_message(text) == [type |-> "tool", content |-> text, tool_calls |-> <<>>]

\* The free text of the worker's closing AIMessage. The context message asks for
\* 'REPORT: "Task Complete. Data is ready for [Next Step]."'; after a tool wrote
\* a file the model may also restate where the data went: the output alone, or
\* the input and then the output.
ai_texts(ptr, made) ==
    {<<"T","a","s","k"," ","C","o","m","p","l","e","t","e","."," ","D","a","t","a"," ","i","s"," ","r","e","a","d","y"," ","f","o","r"," ","N","e","x","t"," ","S","t","e","p",".">>}
    \cup IF made = <<>> THEN {}
         ELSE {<<"T","a","s","k"," ","C","o","m","p","l","e","t","e","."," ","O","u","t","p","u","t"," ","s","a","v","e","d"," ","t","o",":"," ">> \o made[Len(made)] \o <<".">>,
               <<"I","n","p","u","t"," ","s","a","v","e","d"," ","t","o",":"," ">> \o fmt(ptr) \o <<","," ","o","u","t","p","u","t"," ","s","a","v","e","d"," ","t","o",":"," ">>
                    \o made[Len(made)] \o <<".">>}

\* file_path arguments the model passes: the context message's "You MUST use this
\* EXACT string for all tool 'file_path' arguments"
arg_paths(ptr) == {fmt(ptr)}

\* langgraph create_react_agent: the messages one invocation appends. Each round
\* is an AIMessage with one tool call and the ToolMessage answering it; the loop
\* ends with an AIMessage without tool calls. k bounds the rounds.
RECURSIVE react_agent(_, _, _, _, _)
react_agent(name, ptr, fs, made, k) ==
    LET finals == {[msgs |-> <<ai_message(t, <<>>)>>, files |-> fs, made |-> made, calls |-> <<>>] :
                        t \in ai_texts(ptr, made)}
        round(tool, fp, oc) ==
            LET res == call_tool(tool, fp, oc)
            IN  {[msgs  |-> <<ai_message(<<>>, <<[name |-> tool, file_path |-> fp]>>),
                              tool_message(res.text)>> \o r.msgs,
                  files |-> r.files,
                  made  |-> r.made,
                  calls |-> <<[tool |-> tool, file_path |-> fp, outcome |-> oc]>> \o r.calls] :
                    r \in react_agent(name, ptr, fs \cup Range(res.written),
                                      made \o res.written, k - 1)}
        rounds == IF k <= 0 THEN {}
                  ELSE UNION {round(c[1], c[2], c[3]) :
                          c \in {x \in agent_tools(name) \X arg_paths(ptr)
                                        \X {"ok", "empty", "empty_result", "no_numeric",
                                            "no_columns", "missing", "exception"} :
                                    x[3] \in tool_outcomes(x[1], x[2], fs)}}
    IN  finals \cup rounds

\* ------------------------------------------------------------ front end
\* app.py: temp_dir = os.path.abspath("temp_data"), written "data"
temp_dir == <<"d","a","t","a">>
\* app.py: file_path = os.path.join(temp_dir, uploaded_file.name)
upload_path(name) == temp_dir \o <<"/">> \o name
\* names of the CSV files a user uploads
UploadNames == {<<"r","a","w",".","c","s","v">>}
\* names the uploader (type=["csv"]) also accepts: a base that ends in _cleaned, in
\* another casing or before a second dot, dots in the base, no base, another casing
\* of the extension, blanks and a colon
CleaningUploads == {<<"r","a","w",".","c","s","v">>, <<"x","_","c","l","e","a","n","e","d",".","c","s","v">>, <<"_","c","l","e","a","n","e","d",".","c","s","v">>, <<"x","_","C","L","E","A","N","E","D",".","c","s","v">>,
                    <<"x","_","c","l","e","a","n","e","d",".","v","2",".","c","s","v">>, <<"a",".","b",".","c","s","v">>, <<".","c","s","v">>, <<"R","A","W",".","C","S","V">>,
                    <<"s","a","v","e","d"," ","t","o",":"," ","x",".","c","s","v">>}
\* app.py: default_prompt of the autonomous trigger
default_prompt == <<"P","e","r","f","o","r","m"," ","f","u","l","l"," ","d","a","t","a"," ","c","l","e","a","n","i","n","g"," ","(","n","u","l","l","s",","," ","o","u","t","l","i","e","r","s",")",","," ","e","x","p","l","o","r","a","t","o","r","y"," ","a","n","a","l","y","s","i","s"," ","(","E","D","A",")",","," ","a","n","d"," ","t","h","e","n"," ","c","l","u","s","t","e","r"," ","a","l","l"," ","n","u","m","e","r","i","c"," ","f","e","a","t","u","r","e","s"," ","i","n","t","o"," ","3"," ","g","r","o","u","p","s"," ","a","n","d"," ","v","i","s","u","a","l","i","z","e",".">>
\* what a user types into st.chat_input
Prompts == {<<"c","l","e","a","n"," ","a","n","d"," ","c","l","u","s","t","e","r"," ","i","n","t","o"," ","3"," ","g","r","o","u","p","s">>}

\* ---------------------------------------------------------------- state
VARIABLES
    uploaded_file,   \* app.py: the file_uploader widget: None or the file's name
    auto_triggered,  \* app.py: st.session_state.auto_triggered
    ss_df_path,      \* app.py: st.session_state.df_path
    messages,        \* AgentState.messages of the session's thread (checkpointed)
    next_node,       \* AgentState.next_node
    df_path,         \* AgentState.df_path
    node,            \* the graph node to run next; END when no turn is running
    files,           \* the files on disk (uploads and artifacts)
    next_id,         \* ids given to messages so far
    response,        \* history: the backend answer of the supervisor step just taken
    call,            \* history: the worker invocation just completed
    latest_artifact, \* history: the path of the artifact written last, None if none
    raised,          \* the exception that ended the turn and the node it left, if any
    trace,           \* history: the nodes run in the current turn: the pointer after each,
                     \* its tool calls, and how many messages of the history it was given
    thread_id,       \* app.py: st.session_state.thread_id of the browser session in focus
    memory,          \* agents.py: the MemorySaver: thread key -> latest checkpointed state
    parked           \* app.py: st.session_state of the other browser session, and where
                     \* its script run stands in graph.stream

vars == <<uploaded_file, auto_triggered, ss_df_path, messages, next_node, df_path,
          node, files, next_id, response, call, latest_artifact, raised, trace,
          thread_id, memory, parked>>

NoResponse == <<"NoResponse">>
\* what llm.invoke raises when the backend cannot be reached or refuses
BackendError == <<"BackendError">>
\* langgraph: raised by graph.stream when recursion_limit steps did not end the run
GraphRecursionError == <<"GraphRecursionError">>
\* value of node after an exception left graph.stream: the turn is over, not completed
Failed == <<"failed">>
\* app.py process_request: config["recursion_limit"]
recursion_limit == 100
\* no exception has ended the turn
NotRaised == [error |-> None, node |-> None]
NoCall == [name |-> None, df_path_in |-> None, before |-> {}, context |-> 0,
           given |-> <<>>, count |-> 0, made |-> <<>>, calls |-> <<>>]

Init ==
    /\ uploaded_file = None
    /\ auto_triggered = FALSE
    /\ ss_df_path = None
    /\ messages = <<>>
    /\ next_node = None
    /\ df_path = None
    /\ node = END
    /\ files = {}
    /\ next_id = 0
    /\ response = NoResponse
    /\ call = NoCall
    /\ latest_artifact = None
    /\ raised = NotRaised
    /\ trace = <<>>
    /\ thread_id = 1
    /\ memory = <<>>
    /\ parked = [uploaded_file |-> None, auto_triggered |-> FALSE, ss_df_path |-> None,
                 thread_id |-> 2, node |-> END, raised |-> NotRaised, trace |-> <<>>]

\* mutant of add_messages: messages declared without the reducer, last value wins
add_messages_overwrite(left, right) == right

\* state.py: Annotated[Sequence[BaseMessage], add_messages], the reducer of
\* AgentState.messages: a message whose id is in the history replaces that entry
\* in place, any other message is appended
add_messages(left, right) ==
    LET at(m) == {i \in 1..Len(left) : left[i].id = m.id}
        update(i) == {j \in 1..Len(right) : right[j].id = left[i].id}
        fresh(m) == at(m) = {}
    IN  [i \in 1..Len(left) |-> IF update(i) = {} THEN left[i] ELSE right[Max(update(i))]]
            \o SelectSeq(right, fresh)

\* mutant of thread_key: every session runs the graph on one shared thread
thread_key_shared(tid) == 0

\* app.py process_request: config["configurable"]["thread_id"], the key under
\* which the run's state is checkpointed: the session's thread_id
thread_key(tid) == tid

\* the state of a thread that has no checkpoint: every key of AgentState absent
NoState == [messages |-> <<>>, next_node |-> None, df_path |-> None]

\* agents.py MemorySaver, read: the latest state checkpointed under key
get_state(mem, key) == IF key \in DOMAIN mem THEN mem[key] ELSE NoState

\* agents.py MemorySaver, write: the state st becomes the latest under key,
\* every other key keeps its checkpoint
put_state(mem, key, st) ==
    [k \in DOMAIN mem \cup {key} |-> IF k = key THEN st ELSE mem[k]]

\* app.py process_request: graph.stream(initial_state, config) on the session's
\* thread: the thread's checkpoint is loaded, the HumanMessage is appended
\* (add_messages), df_path is overwritten with st.session_state.df_path, the
\* result is checkpointed and the graph starts at its entry point.
process_request(prompt, session_path) ==
    /\ LET saved == get_state(memory, thread_key(thread_id))
       IN  /\ messages' = add_messages(saved.messages,
                              <<[id |-> next_id, type |-> "human",
                                 content |-> prompt, tool_calls |-> <<>>]>>)
           /\ next_node' = saved.next_node
    /\ next_id' = next_id + 1
    /\ df_path' = session_path
    /\ memory' = put_state(memory, thread_key(thread_id),
                     [messages |-> messages', next_node |-> next_node', df_path |-> df_path'])
    /\ node' = supervisor
    /\ trace' = <<>>
    /\ raised' = NotRaised
    /\ response' = NoResponse
    /\ call' = NoCall
    /\ UNCHANGED <<latest_artifact, thread_id, parked>>

\* no turn is running: the last one completed or was ended by an exception
Idle == node \in {END, Failed}

\* app.py, a script run after the user uploads a file: the sidebar saves it and
\* sets st.session_state.df_path; section 5 starts the autonomous pipeline once.
UploadFile(names) ==
    /\ Idle
    /\ uploaded_file = None
    /\ Len(messages) < MaxMessages
    /\ \E name \in names :
        /\ uploaded_file' = name
        /\ files' = files \cup {upload_path(name)}
        /\ ss_df_path' = upload_path(name)
        /\ IF ~auto_triggered
           THEN /\ auto_triggered' = TRUE
                /\ process_request(default_prompt, upload_path(name))
           ELSE UNCHANGED <<auto_triggered, messages, next_id, df_path, node, trace,
                            raised, response, call, next_node, latest_artifact,
                            thread_id, memory, parked>>

\* the upload of a file named as in UploadNames
Upload == UploadFile(UploadNames)

\* app.py, a script run after the user submits st.chat_input: the sidebar sets
\* st.session_state.df_path from the uploader again, then process_request(prompt).
ChatInput ==
    /\ Idle
    /\ Len(messages) < MaxMessages
    /\ \E prompt \in Prompts :
        LET session_path == IF uploaded_file # None THEN upload_path(uploaded_file)
                            ELSE None
        IN  /\ ss_df_path' = session_path
            /\ process_request(prompt, session_path)
    /\ UNCHANGED <<uploaded_file, auto_triggered, files>>

\* with ids next_id + 1, ... given to the messages the agent produced
with_ids(msgs, first) ==
    [i \in 1..Len(msgs) |->
        [id |-> first + i - 1, type |-> msgs[i].type, content |-> msgs[i].content,
         tool_calls |-> msgs[i].tool_calls]]

\* agents.py supervisor_node followed by the conditional edge; answers are the
\* texts the backend may return. The keys of the returned update are written to
\* the state, messages through its reducer
Supervisor(answers) ==
    /\ node = supervisor
    /\ Len(trace) < recursion_limit
    /\ \E r \in answers : \E out \in {supervisor_node(r)} :
        LET new == IF "messages" \in DOMAIN out THEN with_ids(out.messages, next_id)
                   ELSE <<>>
        IN  /\ response' = r
            /\ next_node' = out.next_node
            /\ messages' = add_messages(messages, new)
            /\ next_id' = next_id + Len(new)
            /\ df_path' = IF "df_path" \in DOMAIN out THEN out.df_path ELSE df_path
            /\ node' = conditional_edge(out.next_node)
            /\ trace' = Append(trace, [node |-> supervisor, df_path |-> df_path',
                                      calls |-> <<>>, seen |-> Len(messages)])
    /\ call' = NoCall
    /\ memory' = put_state(memory, thread_key(thread_id),
                     [messages |-> messages', next_node |-> next_node', df_path |-> df_path'])
    /\ UNCHANGED <<uploaded_file, auto_triggered, ss_df_path, files, latest_artifact, raised,
                   thread_id, parked>>

\* mutant of supervisor_node_on_error: the failure is caught and the turn is finished
supervisor_node_on_error_finishes == [raised |-> None, next_node |-> FINISH]

\* agents.py supervisor_node when llm.invoke raises: the call stands in no try
\* block, so the exception leaves the node and nothing is returned
supervisor_node_on_error == [raised |-> BackendError, next_node |-> None]

\* agents.py supervisor_node on a backend failure, as seen by app.py: graph.stream
\* stands in no try block either, so the exception ends the script run
SupervisorFails ==
    /\ node = supervisor
    /\ Len(trace) < recursion_limit
    /\ LET out == supervisor_node_on_error
       IN  IF out.raised # None
           THEN /\ node' = Failed
                /\ raised' = [error |-> out.raised, node |-> supervisor]
                /\ UNCHANGED <<next_node, trace>>
           ELSE /\ node' = conditional_edge(out.next_node)
                /\ next_node' = out.next_node
                /\ trace' = Append(trace, [node |-> supervisor, df_path |-> df_path,
                                          calls |-> <<>>, seen |-> Len(messages)])
                /\ UNCHANGED raised
    /\ response' = BackendError
    /\ call' = NoCall
    /\ UNCHANGED <<uploaded_file, auto_triggered, ss_df_path, messages, df_path, files,
                   next_id, latest_artifact, thread_id, memory, parked>>

\* mutant of OutOfSteps: the run is cut off and looks completed
OutOfStepsSilently ==
    /\ node \notin {END, Failed}
    /\ Len(trace) >= recursion_limit
    /\ node' = END
    /\ UNCHANGED <<uploaded_file, auto_triggered, ss_df_path, messages, next_node, df_path,
                   files, next_id, response, call, latest_artifact, raised, trace,
                   thread_id, memory, parked>>

\* langgraph, graph.stream under config["recursion_limit"]: once that many nodes
\* have run in the turn and a node is still due, GraphRecursionError is raised;
\* app.py does not catch it
OutOfSteps ==
    /\ node \notin {END, Failed}
    /\ Len(trace) >= recursion_limit
    /\ node' = Failed
    /\ raised' = [error |-> GraphRecursionError, node |-> node]
    /\ UNCHANGED <<uploaded_file, auto_triggered, ss_df_path, messages, next_node, df_path,
                   files, next_id, response, call, latest_artifact, trace,
                   thread_id, memory, parked>>

\* app.py process_request, the stream loop: cleaning_agent and clustering_agent
\* updates are copied to st.session_state.df_path
session_path_after(name, out_path, old) ==
    IF name \in {cleaning_agent, clustering_agent} THEN out_path ELSE old

\* mutant of worker_edge: the workers wired as a pipeline
worker_edge_pipeline(name) ==
    CASE name = cleaning_agent -> clustering_agent
      [] name = clustering_agent -> visualization_agent
      [] OTHER -> END

\* agents.py: workflow.add_edge(<worker>, "supervisor")
worker_edge(name) == supervisor

\* tool rounds that still fit the history: two messages each, and the report
rounds_left == (MaxMessages - Len(messages) - 1) \div 2

\* agents.py run_specialist as the node `name`, the add_messages reducer applied
\* to its return value, and the edge back to the supervisor; the agent makes at
\* most k tool rounds
Invoke(name, k) ==
    /\ node = name
    /\ Len(trace) < recursion_limit
    /\ \E r \in react_agent(name, df_path, files, <<>>, k) :
        LET state    == [messages |-> messages, df_path |-> df_path]
            produced == with_ids(r.msgs, next_id + 1)
            local    == local_messages(messages, df_path, next_id)
        IN  \E out \in {run_specialist(state, produced, next_id)} :
            /\ messages' = add_messages(messages, out.messages)
            /\ df_path' = out.df_path
            /\ ss_df_path' = session_path_after(name, out.df_path, ss_df_path)
            /\ files' = r.files
            /\ next_id' = next_id + 1 + Len(produced)
            /\ latest_artifact' = IF r.made = <<>> THEN latest_artifact
                                  ELSE r.made[Len(r.made)]
            /\ call' = [name |-> name, df_path_in |-> df_path,
                        before |-> {messages[i].id : i \in 1..Len(messages)},
                        context |-> next_id,
                        given |-> [i \in 1..Len(local) |-> local[i].id],
                        count |-> Len(out.messages),
                        made |-> r.made,
                        calls |-> r.calls]
            /\ trace' = Append(trace, [node |-> name, df_path |-> out.df_path, calls |-> r.calls,
                                      seen |-> Len(local)])
    /\ node' = worker_edge(name)
    /\ response' = NoResponse
    /\ memory' = put_state(memory, thread_key(thread_id),
                     [messages |-> messages', next_node |-> next_node, df_path |-> df_path'])
    /\ UNCHANGED <<uploaded_file, auto_triggered, next_node, raised, thread_id, parked>>

\* a worker node, within the history budget
RunSpecialist(name) == Len(messages) < MaxMessages /\ Invoke(name, rounds_left)

\* app.py: str(uuid.uuid4()): an id no session holds and no checkpoint is stored under
new_thread_id == Max({thread_id, parked.thread_id} \cup DOMAIN memory) + 1

\* app.py, the script run after "Clear Conversation" is clicked: the sidebar sets
\* st.session_state.df_path from the uploader, the button's branch empties
\* st.session_state.messages and replaces st.session_state.thread_id, then
\* st.rerun(); auto_triggered is left as it is, so no pipeline starts. The
\* session now shows the state of its new thread.
ClearConversation ==
    /\ Idle
    /\ new_thread_id <= MaxThreads
    /\ thread_id' = new_thread_id
    /\ ss_df_path' = IF uploaded_file = None THEN None ELSE upload_path(uploaded_file)
    /\ LET saved == get_state(memory, thread_key(thread_id'))
       IN  /\ messages' = saved.messages
           /\ next_node' = saved.next_node
           /\ df_path' = saved.df_path
    /\ node' = END
    /\ trace' = <<>>
    /\ raised' = NotRaised
    /\ response' = NoResponse
    /\ call' = NoCall
    /\ UNCHANGED <<uploaded_file, auto_triggered, files, next_id, latest_artifact,
                   memory, parked>>

\* app.py run for the other browser session: each session has its own
\* st.session_state (uploader, auto_triggered, df_path, thread_id) and its own
\* script run; the graph and its MemorySaver are module-level objects of
\* agents.py, shared by all sessions. The session in focus is parked where it
\* stands, between two steps of its turn or idle, and the parked one comes into
\* focus with the state of its thread.
SwitchSession ==
    /\ parked' = [uploaded_file |-> uploaded_file, auto_triggered |-> auto_triggered,
                  ss_df_path |-> ss_df_path, thread_id |-> thread_id,
                  node |-> node, raised |-> raised, trace |-> trace]
    /\ uploaded_file' = parked.uploaded_file
    /\ auto_triggered' = parked.auto_triggered
    /\ ss_df_path' = parked.ss_df_path
    /\ thread_id' = parked.thread_id
    /\ node' = parked.node
    /\ raised' = parked.raised
    /\ trace' = parked.trace
    /\ LET saved == get_state(memory, thread_key(thread_id'))
       IN  /\ messages' = saved.messages
           /\ next_node' = saved.next_node
           /\ df_path' = saved.df_path
    /\ response' = NoResponse
    /\ call' = NoCall
    /\ UNCHANGED <<files, next_id, latest_artifact, memory>>

Workers == Range(members)

\* ------------------------------------------------- backend answers
\* pieces of the router backend's free text
AnswerParts ==
    {cleaning_agent, clustering_agent, visualization_agent, FINISH,
     <<" ">>, <<"f","i","n","i","s","h">>, <<"I"," ","t","h","i","n","k"," ","w","e"," ","s","h","o","u","l","d"," ","p","r","o","c","e","e","d"," ","w","i","t","h"," ">>, <<" ","n","e","x","t",".">>}

RECURSIVE Texts(_, _)
\* concatenations of at most n pieces
Texts(parts, n) ==
    IF n = 0 THEN {<<>>}
    ELSE Texts(parts, n - 1) \cup {t \o p : t \in Texts(parts, n - 1), p \in parts}

\* answers of a backend that follows "Reply ONLY with the name of the next agent or FINISH"
DirectAnswers == Range(options)

Next ==
    \/ Upload
    \/ ChatInput
    \/ Supervisor(DirectAnswers)
    \/ SupervisorFails
    \/ \E name \in Workers : RunSpecialist(name)

Spec == Init /\ [][Next]_vars

\* every free text of at most MaxAnswerParts pieces
RouterAnswers == Texts(AnswerParts, MaxAnswerParts)

\* The router alone, on every such answer
NextRouter ==
    \/ Upload
    \/ ChatInput
    \/ Supervisor(RouterAnswers)

SpecRouter == Init /\ [][NextRouter]_vars

\* The cleaning worker alone, on uploads of every name in CleaningUploads
NextCleaning ==
    \/ UploadFile(CleaningUploads)
    \/ ChatInput
    \/ Supervisor({cleaning_agent, FINISH})
    \/ RunSpecialist(cleaning_agent)

SpecCleaning == Init /\ [][NextCleaning]_vars

\* a worker that reports without calling a tool
ReportOnly(name) == Invoke(name, 0)

\* a step of the graph in a turn whose router never stops selecting a worker on
\* its own account: it answers visualization_agent or FINISH
StepCeiling ==
    \/ Supervisor({visualization_agent, FINISH})
    \/ ReportOnly(visualization_agent)
    \/ OutOfSteps

\* The turn the upload starts, as long as the router lets it run
NextCeiling == Upload \/ StepCeiling

\* graph.stream keeps running the node that is due: the calls it waits on return
SpecCeiling == Init /\ [][NextCeiling]_vars /\ WF_vars(StepCeiling)

\* two browser sessions on the one server process: turns of either, their steps
\* interleaved, answered directly or through the visualization worker, Clear
\* Conversation in either, within a budget of messages over all threads
SessionUpload == next_id < MaxSessionMessages /\ Upload
SessionChatInput == next_id < MaxSessionMessages /\ ChatInput
SessionWorker == next_id < MaxSessionMessages /\ ReportOnly(visualization_agent)
NextSessions ==
    \/ SessionUpload
    \/ SessionChatInput
    \/ Supervisor({visualization_agent, FINISH})
    \/ SessionWorker
    \/ ClearConversation
    \/ SwitchSession

SpecSessions == Init /\ [][NextSessions]_vars
\* ================================================================ claims
\* a supervisor step has just been taken, on the answer held in response
Routed == response \notin {NoResponse, BackendError}

\* a worker invocation has just completed
Invoked == call # NoCall

\* the messages the last worker invocation added to the history
LastDelta == SubSeq(messages, Len(messages) - call.count + 1, Len(messages))

\* C1: for every backend answer the supervisor step leaves next_node in the closed
\* set of four actions and the conditional edge leads to a worker node or to END.
C1_ActionSetClosed ==
    Routed =>
        /\ next_node \in {cleaning_agent, clustering_agent, visualization_agent, FINISH}
        /\ node \in {cleaning_agent, clustering_agent, visualization_agent, END}

\* C1 witness: an answer of pure whitespace was routed, to END
C1_Witness ==
    /\ Routed
    /\ response # <<>>
    /\ strip(response) = <<>>
    /\ node = END

\* positions in s where the literal "saved to: " starts a marker: the literal, then
\* a path that ends at the first ".csv" after it on the same line
marker_ends(s, i) ==
    {j \in (i + 10)..(Len(s) - 3) :
        /\ SubSeq(s, j, j + 3) = DotCsv
        /\ \A k \in (i + 10)..(j - 1) : s[k] # "\n"}
marker_starts(s) ==
    {i \in 1..(Len(s) - 9) :
        SubSeq(s, i, i + 9) = <<"s","a","v","e","d"," ","t","o",":"," ">> /\ marker_ends(s, i) # {}}
\* the path the marker at position i of s declares
marker_path(s, i) == strip(SubSeq(s, i + 10, Min(marker_ends(s, i)) + 3))

\* C2: when the new messages of a worker invocation hold valid save-markers, the
\* returned pointer is the path of the last marker: the last marker of the last
\* message that holds one.
C2_LastMarkerWins ==
    Invoked =>
        LET new  == LastDelta
            with == {i \in 1..Len(new) : marker_starts(new[i].content) # {}}
        IN  with # {} =>
                df_path = marker_path(new[Max(with)].content,
                                      Max(marker_starts(new[Max(with)].content)))

\* the path first uploaded, None before any upload
original_path == IF uploaded_file = None THEN None ELSE upload_path(uploaded_file)

\* C3: whenever a worker is about to be invoked, df_path is the path of the
\* artifact produced last, or the uploaded path when none was produced.
C3_PointerIsLatestArtifact ==
    node \in Workers =>
        df_path = IF latest_artifact # None THEN latest_artifact ELSE original_path

\* C4: the delta of a worker invocation holds no message that was in the history
\* before the call and not the injected context message, and no context message
\* is ever in the persisted history.
C4_DeltaIsolation ==
    /\ Invoked =>
          \A i \in 1..Len(LastDelta) :
              /\ LastDelta[i].id \notin call.before
              /\ LastDelta[i].id # call.context
    /\ \A i \in 1..Len(messages) : messages[i].type # "system"

\* C4 witness: a second invocation, with a tool round, on a history of four messages or more
C4_Witness ==
    /\ Invoked
    /\ call.count >= 3
    /\ Cardinality(call.before) >= 4

\* C5: an answer holding an agent name and FINISH is routed to an agent it names.
C5_AgentBeatsFinish ==
    (Routed /\ Contains(response, FINISH) /\ \E m \in Workers : Contains(response, m))
        => (next_node \in Workers /\ Contains(response, next_node))

\* C5 witness: "FINISH clustering_agent" was routed to clustering_agent
C5_Witness ==
    /\ Routed
    /\ response = FINISH \o <<" ">> \o clustering_agent
    /\ next_node = clustering_agent

\* C6: an answer holding none of the four action names is routed to FINISH, and the turn ends.
C6_FailSafeDefault ==
    (Routed /\ \A i \in 1..Len(options) : ~Contains(response, options[i]))
        => (next_node = FINISH /\ node = END)

\* C6 witness: "I think we should proceed with finish next." ended the turn
C6_Witness ==
    /\ Routed
    /\ response = <<"I"," ","t","h","i","n","k"," ","w","e"," ","s","h","o","u","l","d"," ","p","r","o","c","e","e","d"," ","w","i","t","h"," ","f","i","n","i","s","h"," ","n","e","x","t",".">>
    /\ next_node = FINISH
    /\ node = END

\* C7: prose naming exactly one agent, without FINISH, is routed to that agent.
C7_ProseNamesAgent ==
    (Routed /\ ~Contains(response, FINISH)
            /\ Cardinality({m \in Workers : Contains(response, m)}) = 1)
        => (next_node \in Workers /\ Contains(response, next_node))

\* C7 witness: the spec's example answer was routed to clustering_agent
C7_Witness ==
    /\ Routed
    /\ response = <<"I"," ","t","h","i","n","k"," ","w","e"," ","s","h","o","u","l","d"," ","p","r","o","c","e","e","d"," ","w","i","t","h"," ","c","l","u","s","t","e","r","i","n","g","_","a","g","e","n","t"," ","n","e","x","t",".">>
    /\ next_node = clustering_agent
    /\ node = clustering_agent

\* the turn just ended ran supervisor, cleaning_agent, supervisor, clustering_agent,
\* supervisor from the pointer data/raw.csv; the cleaning worker ran clean_data and
\* the clustering worker perform_clustering, each once, on its pointer, with success
CleanThenCluster ==
    /\ node = END
    /\ Len(trace) = 5
    /\ [i \in 1..5 |-> trace[i].node]
         = <<supervisor, cleaning_agent, supervisor, clustering_agent, supervisor>>
    /\ trace[1].df_path = <<"d","a","t","a","/","r","a","w",".","c","s","v">>
    /\ trace[2].calls = <<[tool |-> "clean_data", file_path |-> trace[1].df_path,
                           outcome |-> "ok"]>>
    /\ trace[4].calls = <<[tool |-> "perform_clustering", file_path |-> trace[3].df_path,
                           outcome |-> "ok"]>>

\* C8: in the clean-then-cluster scenario the pointer is data/raw_cleaned.csv after
\* the cleaning step and data/raw_cleaned_clustered.csv after the clustering step.
C8_CleanThenClusterPointers ==
    CleanThenCluster =>
        /\ trace[2].df_path = <<"d","a","t","a","/","r","a","w","_","c","l","e","a","n","e","d",".","c","s","v">>
        /\ trace[4].df_path = <<"d","a","t","a","/","r","a","w","_","c","l","e","a","n","e","d","_","c","l","u","s","t","e","r","e","d",".","c","s","v">>

\* C9: the return text of every clean_data or perform_clustering call that wrote
\* an artifact holds "saved to: " followed by the artifact's .csv path, and the
\* extractor reads that path from the text.
C9_ToolsEmitMarker ==
    Invoked =>
        \A k \in 1..Len(call.calls) :
            LET c == call.calls[k]
                r == call_tool(c.tool, c.file_path, c.outcome)
            IN  r.written # <<>> =>
                    /\ EndsWith(r.written[1], DotCsv)
                    /\ Contains(r.text, <<"s","a","v","e","d"," ","t","o",":"," ">> \o r.written[1])
                    /\ message_path(r.text) = r.written[1]

\* C10: when the new messages hold one save marker, in whatever letter case the
\* words "saved to" are written, the returned pointer is that marker's path.
C10_AnyCasingRecognized ==
    Invoked =>
        LET new  == LastDelta
            with == {i \in 1..Len(new) : marker_starts(lower(new[i].content)) # {}}
        IN  (/\ Cardinality(with) = 1
             /\ \A i \in with : Cardinality(marker_starts(lower(new[i].content))) = 1)
            => \A i \in with :
                 LET s == new[i].content
                     p == CHOOSE q \in marker_starts(lower(s)) : TRUE
                 IN  df_path = strip(SubSeq(s, p + 10, Min(marker_ends(lower(s), p)) + 3))

\* C11: when no new message of a worker invocation holds a save marker, the
\* pointer returned is the pointer received, whatever markers older messages hold.
C11_NoMarkerKeepsPointer ==
    (Invoked /\ \A i \in 1..Len(LastDelta) : marker_starts(LastDelta[i].content) = {})
        => df_path = call.df_path_in

\* C11 witness: an invocation without marker left the pointer alone although an
\* older message of the history declares another path
C11_Witness ==
    /\ Invoked
    /\ \A i \in 1..Len(LastDelta) : marker_starts(LastDelta[i].content) = {}
    /\ df_path = call.df_path_in
    /\ \E i \in 1..(Len(messages) - call.count) :
          /\ marker_starts(messages[i].content) # {}
          /\ message_path(messages[i].content) # df_path

\* the step is a worker invocation returning
WorkerStep == node \in Workers /\ node' # node

\* C12: the pointer of the conversation state, once set, is changed by worker
\* invocations only: not by a router step, not by the start of a user turn.
C12_OnlyExtractorWritesPointer ==
    [][(df_path # None /\ df_path' # df_path) => WorkerStep]_vars

\* s is a prefix of t
IsPrefix(s, t) == Len(s) <= Len(t) /\ SubSeq(t, 1, Len(s)) = s

\* C13: every step leaves the history as it was and at most appends to it, and a
\* worker's messages come after the whole history it found.
C13_MessagesAppendOnly ==
    [][/\ IsPrefix(messages, messages')
       /\ WorkerStep => /\ Len(messages') = Len(messages) + call'.count
                        /\ \A i \in (Len(messages) + 1)..Len(messages') :
                              messages'[i].id \notin {messages[j].id : j \in 1..Len(messages)}]_vars

\* C13 witness: a worker added a tool round and its report in the second user turn
C13_Witness ==
    /\ Invoked
    /\ call.count = 3
    /\ Cardinality({i \in 1..Len(messages) : messages[i].type = "human"}) = 2
    /\ messages[Len(messages) - 3].type = "human"

\* C15: a worker node that completes is followed by supervisor, never by a worker
\* or by END, and END is entered from supervisor only, on the decision FINISH.
C15_WorkersReturnToSupervisor ==
    [][/\ WorkerStep => node' = supervisor
       /\ (node' = END /\ node # END) => (node = supervisor /\ next_node' = FINISH)]_vars

\* C15 witness: a turn of two worker steps, each followed by supervisor, ended on FINISH
C15_Witness ==
    /\ node = END
    /\ next_node = FINISH
    /\ Len(trace) = 5
    /\ trace[2].node \in Workers /\ trace[3].node = supervisor
    /\ trace[4].node \in Workers /\ trace[5].node = supervisor

\* C17: a worker is given the whole history in order and then the one context
\* message, and not fewer messages than the supervisor step before it was given.
C17_WorkerSeesWholeHistory ==
    Invoked =>
        LET n == Len(messages) - call.count
            k == Len(trace)
        IN  /\ Len(call.given) = n + 1
            /\ \A i \in 1..n : call.given[i] = messages[i].id
            /\ call.given[n + 1] = call.context
            /\ call.context \notin {messages[i].id : i \in 1..Len(messages)}
            /\ k >= 2 /\ trace[k - 1].node = supervisor
            /\ trace[k].seen - 1 >= trace[k - 1].seen

\* C17 witness: a worker was given a history of four messages and the context message
C17_Witness ==
    /\ Invoked
    /\ Len(call.given) = 5
    /\ call.given[5] = call.context
    /\ \A i \in 1..4 : call.given[i] = messages[i].id
    /\ trace[Len(trace) - 1].seen = 4

\* the agent names an answer holds, as positions of members
Named(content) == {i \in 1..Len(members) : Contains(content, members[i])}

\* C18: an answer holding several agent names is routed to the one that comes first
\* in cleaning_agent, clustering_agent, visualization_agent, wherever the names stand.
C18_TieByPriority ==
    (Routed /\ Cardinality(Named(response)) >= 2)
        => /\ members = <<cleaning_agent, clustering_agent, visualization_agent>>
           /\ next_node = members[Min(Named(response))]

\* C18 witness: the answer names visualization_agent before cleaning_agent
C18_Witness ==
    /\ Routed
    /\ response = visualization_agent \o <<" ">> \o cleaning_agent
    /\ next_node = cleaning_agent
    /\ node = cleaning_agent

\* C14: clean_data on a path whose base ends in _cleaned writes and reports that
\* same path, and on any path it writes a path that it would write to again.
C14_CleanPathIdempotent ==
    Invoked =>
        \A k \in 1..Len(call.calls) :
            LET c   == call.calls[k]
                r   == clean_data(c.file_path, c.outcome)
                out == r.written[1]
            IN  (c.tool = "clean_data" /\ c.outcome = "ok") =>
                    /\ r.written # <<>>
                    /\ EndsWith(splitext(c.file_path)[1], <<"_","c","l","e","a","n","e","d">>)
                         => /\ out = c.file_path
                            /\ Contains(r.text, <<"S","a","v","e","d"," ","t","o",":"," ">> \o c.file_path \o <<"."," ">>)
                    /\ clean_data(out, "ok").written = <<out>>
                    /\ out \in files

\* C14 witness: clean_data ran on the uploaded file and, in the next invocation, on
\* the artifact it had written, and no third file exists
C14_Witness ==
    /\ Len(trace) >= 4
    /\ trace[2].calls = <<[tool |-> "clean_data", file_path |-> <<"d","a","t","a","/","a",".","b",".","c","s","v">>, outcome |-> "ok"]>>
    /\ trace[4].calls = <<[tool |-> "clean_data", file_path |-> <<"d","a","t","a","/","a",".","b","_","c","l","e","a","n","e","d",".","c","s","v">>,
                           outcome |-> "ok"]>>
    /\ files = {<<"d","a","t","a","/","a",".","b",".","c","s","v">>, <<"d","a","t","a","/","a",".","b","_","c","l","e","a","n","e","d",".","c","s","v">>}

\* a turn is running
Running == node \notin {END, Failed}

\* C16: a running turn always has a step to take and ends: at END on the decision
\* FINISH, or after recursion_limit steps with GraphRecursionError raised to the
\* caller, never at END without that decision.
C16_EveryTurnEnds ==
    /\ [](Running => ENABLED StepCeiling)
    /\ [](Len(trace) <= recursion_limit)
    /\ []((node = END /\ trace # <<>>)
            => (raised = NotRaised /\ next_node = FINISH /\ trace[Len(trace)].node = supervisor))
    /\ [](node = Failed
            => (raised.error = GraphRecursionError
                /\ Len(trace) = recursion_limit))
    /\ [](Running => <>(~Running))

\* C16 witness: the router selected a worker fifty times and the turn was ended by
\* GraphRecursionError with the supervisor due
C16_Witness ==
    /\ node = Failed
    /\ raised = [error |-> GraphRecursionError, node |-> supervisor]
    /\ Len(trace) = 100
    /\ Cardinality({i \in 1..Len(trace) : trace[i].node = visualization_agent}) = 50

\* C20: when the backend call of the supervisor fails, the exception reaches the
\* caller and ends the turn; next_node keeps its value and nothing else is written.
C20_BackendFailurePropagates ==
    [][(node = supervisor /\ response' = BackendError)
        => /\ node' = Failed
           /\ raised' = [error |-> BackendError, node |-> supervisor]
           /\ next_node' = next_node
           /\ messages' = messages
           /\ df_path' = df_path
           /\ trace' = trace]_vars

\* C20 witness: the backend failed at the supervisor step after a worker step whose
\* delta stays in the history
C20_Witness ==
    /\ node = Failed
    /\ response = BackendError
    /\ raised.error = BackendError
    /\ next_node \in Workers
    /\ Len(trace) = 2
    /\ Len(messages) >= 2

\* C21: a supervisor step that received an answer writes next_node only: the
\* history and the pointer keep their values, and no message holds the answer.
C21_SupervisorWritesNextNodeOnly ==
    [][(node = supervisor /\ response' \notin {NoResponse, BackendError})
        => /\ messages' = messages
           /\ df_path' = df_path
           /\ \A answer \in {response'} :
                /\ next_node' = detected_agent(strip(answer))
                /\ \A i \in 1..Len(messages') : messages'[i].content # answer]_vars

\* C21 witness: the supervisor changed next_node from cleaning_agent to
\* clustering_agent over a history that holds a worker's messages
C21_Witness ==
    /\ Routed
    /\ response = clustering_agent
    /\ next_node = clustering_agent
    /\ Len(trace) = 3
    /\ trace[2].node = cleaning_agent
    /\ Len(messages) >= 4
    /\ df_path = trace[2].df_path

\* the request of the turn: the content of the latest human message
Request ==
    messages[Max({i \in 1..Len(messages) : messages[i].type = "human"})].content

\* the workers whose stage a request asks for, by its words
Requested(req) ==
    {a \in Workers :
        \/ a = cleaning_agent /\ Contains(lower(req), <<"c","l","e","a","n">>)
        \/ a = clustering_agent /\ Contains(lower(req), <<"c","l","u","s","t","e","r">>)
        \/ a = visualization_agent /\ Contains(lower(req), <<"v","i","s","u","a","l","i","z">>)}

\* C22: a turn reaches END only after every stage its request asks for has run in
\* it: after a visualization_agent step if visualization was requested.
C22_NoFinishBeforeRequestedStages ==
    (node = END /\ trace # <<>>)
        => \A a \in Requested(Request) : \E i \in 1..Len(trace) : trace[i].node = a

\* the tool calls of the last worker invocation all failed: none returned its result
AllCallsFailed ==
    /\ Invoked
    /\ call.calls # <<>>
    /\ \A k \in 1..Len(call.calls) : call.calls[k].outcome # "ok"

\* C23: a worker step whose tool calls all failed leaves the pointer as it was;
\* each failure is an ordinary tool message in the history, nothing is raised and
\* the supervisor is due next.
C23_ToolFailureIsOrdinaryStep ==
    AllCallsFailed =>
        /\ df_path = call.df_path_in
        /\ node = supervisor
        /\ raised = NotRaised
        /\ \A k \in 1..Len(call.calls) :
              LET c == call.calls[k]
                  r == call_tool(c.tool, c.file_path, c.outcome)
              IN  /\ r.written = <<>>
                  /\ \E i \in 1..Len(LastDelta) :
                        LastDelta[i].type = "tool" /\ LastDelta[i].content = r.text

\* the Conversation State stored under session identifier u in the store mem
stored(mem, u) == get_state(mem, thread_key(u))
\* the ids of the messages stored under session identifier u
stored_ids(mem, u) == {stored(mem, u).messages[i].id : i \in 1..Len(stored(mem, u).messages)}
\* the session in focus starts a turn, takes a step of its turn, clears
TurnStart == thread_id' = thread_id /\ Idle /\ node' = supervisor
TurnStep == thread_id' = thread_id /\ ~Idle
Cleared == thread_id' # thread_id /\ parked' = parked

\* C24: sessions are isolated and explicitly reset. Whatever step is taken, by
\* whichever session, the state stored under every other session identifier is
\* left as it was, and a message is stored under one identifier only. A turn
\* starts from the state stored under its own identifier, with the user's
\* message appended, so a session's state persists across its turns; every
\* step of a turn works on the state stored under its own identifier and
\* extends it. After Clear Conversation the session holds an identifier that no
\* session held and nothing is stored under, and the turn that starts next has
\* the user's message only.
C24_SessionsIsolated ==
    [][/\ \A u \in 1..MaxThreads :
            u # thread_id => stored(memory', u) = stored(memory, u)
       /\ \A u, v \in 1..MaxThreads :
            u # v => stored_ids(memory', u) \cap stored_ids(memory', v) = {}
       /\ messages' = stored(memory', thread_id').messages
       /\ TurnStart =>
            /\ Len(messages') = Len(stored(memory, thread_id).messages) + 1
            /\ IsPrefix(stored(memory, thread_id).messages, messages')
            /\ messages'[Len(messages')].type = "human"
       /\ TurnStep =>
            /\ messages = stored(memory, thread_id).messages
            /\ IsPrefix(messages, messages')
       /\ Cleared =>
            /\ thread_id' \notin {thread_id, parked.thread_id}
            /\ \A u \in 1..MaxThreads : stored(memory, u) # NoState => u < thread_id'
            /\ stored(memory', thread_id') = NoState
            /\ messages' = <<>>]_vars

\* three identifiers hold messages, no two the same; the session in focus has
\* cleared its conversation and taken a second turn under the fresh identifier,
\* and the other session's turn has run a worker in between
C24_Witness ==
    /\ thread_id = MaxThreads
    /\ parked.thread_id = 2
    /\ Len(stored(memory, 1).messages) = 1
    /\ Len(stored(memory, 2).messages) >= 2
    /\ Len(stored(memory, thread_id).messages) = 1
    /\ messages = stored(memory, thread_id).messages
    /\ messages[1].id > stored(memory, 2).messages[1].id
    /\ messages[1].id > stored(memory, 1).messages[1].id
    /\ stored(memory, 2).messages[1].id > stored(memory, 1).messages[1].id

====
